---- MODULE Spec2Model ----
(***************************************************************************)
(* hal-diagram: graph synchronization (useCytoscape.applyToCytoscape),     *)
(* the view state it captures and reapplies, App.reload and the shared     *)
(* local-storage cache (StorageUtil.useLocalStorage).                      *)
(***************************************************************************)
EXTENDS Integers, Sequences, FiniteSets, TLC

(***************************************************************************)
(* Bounds of the model.                                                    *)
(***************************************************************************)
MaxNodes == 2
MaxEdges == 1
MaxUuid == 2

(***************************************************************************)
(* Values.                                                                 *)
(***************************************************************************)
\* node identifiers a data set can use as keys of dataSet.nodes
IdName == <<"a", "b", "c", "d">>
DataIds == {IdName[k] : k \in 1..MaxNodes}
\* an identifier that is never a key of dataSet.nodes (a dangling reference)
DanglingId == "z"
RefIds == DataIds \cup {DanglingId}
\* node.parent left undefined
NoId == ""
\* an unset useState cell
Undefined == "undefined"
NodeLabels == {"p"}
EdgeLabels == {"e"}
\* identifiers UUID.v4() hands out, in the order it hands them out
UuidName == <<"u1", "u2", "u3", "u4", "u5", "u6">>
Positions == {"p0", "p1", "p2"}
\* the position cytoscape gives a node added without one
DefaultPos == "p0"
Cameras == {"c0", "c1"}
NoCamera == "none"

Range(s) == {s[k] : k \in 1..Len(s)}

(***************************************************************************)
(* DataSet: { nodes: { [id]: { label, parent? } }, edges: [...] }.         *)
(* nodes is kept as the sequence Object.entries yields (insertion order).  *)
(***************************************************************************)
NodeEntries == [id : DataIds, label : NodeLabels, parent : RefIds \cup {NoId}]
EdgeEntries == [source : RefIds, target : RefIds, label : EdgeLabels]

SeqsUpTo(S, n) == UNION {[1..k -> S] : k \in 0..n}

UniqueKeys(ns) == \A i, j \in 1..Len(ns) : ns[i].id = ns[j].id => i = j

AllDataSets ==
    {[nodes |-> ns, edges |-> es] :
        ns \in {s \in SeqsUpTo(NodeEntries, MaxNodes) : UniqueKeys(s)},
        es \in SeqsUpTo(EdgeEntries, MaxEdges)}

EmptyDataSet == [nodes |-> <<>>, edges |-> <<>>]

NodeKeys(D) == {D.nodes[k].id : k \in 1..Len(D.nodes)}
\* dataSet.nodes[id], or NoId for undefined
HasNode(D, id) == id \in NodeKeys(D)
NodeOf(D, id) == CHOOSE n \in Range(D.nodes) : n.id = id

(***************************************************************************)
(* The live model (the cytoscape instance): its elements, in the order     *)
(* they were added, and the view attributes the view state is made of.     *)
(***************************************************************************)
VARIABLES cy, cyElems, cyPos, cyCamera, cySelected, cyCollapsed, cyLocked, batch

(***************************************************************************)
(* applyToCytoscape: its arguments, its locals and its position.           *)
(***************************************************************************)
VARIABLES pc, dataSet, viewState, viewStateBeforeQuery, nodeIds,
          nodesWithDepth, ix, depth, parentId, threw, uuidCount

\* useToggle state behind the "lock node positions" checkbox
VARIABLES nodesLocked

uiVars == <<nodesLocked>>

(***************************************************************************)
(* App: its useState cells, the reload calls in flight, the error messages *)
(* dispatched, and whether GraphView has new props to synchronize; how     *)
(* many reload calls were made, and which calls have handed their response  *)
(* to the graph, in the order in which they did.                            *)
(***************************************************************************)
VARIABLES dataSource, dsHandler, initialDataSetForGraph, initialViewStateForGraph,
          nowLoading, reloads, messages, graphDirty, issued, shown

appVars == <<dataSource, dsHandler, initialDataSetForGraph, initialViewStateForGraph,
             nowLoading, reloads, messages, graphDirty, issued, shown>>

(***************************************************************************)
(* StorageUtil: the reducer state shared through LocalStorageContext, the   *)
(* browser's localStorage, the components that call useLocalStorage, and    *)
(* how often each key was read from and written to.                         *)
(***************************************************************************)
VARIABLES cache, localStorage, consumer, lastSaved, storageReads, cacheWrites,
          storageWrites

storageVars == <<cache, localStorage, consumer, lastSaved, storageReads, cacheWrites,
                 storageWrites>>

(***************************************************************************)
(* Tree.toTree: its argument, the Map of wrapper nodes, the position in    *)
(* its loops, the ancestor walk of getAncestors, and the returned roots;    *)
(* and what Tree.flatten returns for these roots.                          *)
(***************************************************************************)
VARIABLES treeItems, treeMode, treeNodes, treeChildNodes, treePc, treeIx, treeCur,
          treeArr, treeRoots, treeFlat

treeVars == <<treeItems, treeMode, treeNodes, treeChildNodes, treePc, treeIx, treeCur,
              treeArr, treeRoots, treeFlat>>

\* everything applyToCytoscape does not touch
NotSyncVars == <<uiVars, appVars, storageVars, treeVars>>

cyVars == <<cy, cyElems, cyPos, cyCamera, cySelected, cyCollapsed, cyLocked, batch>>
syncVars == <<pc, dataSet, viewState, viewStateBeforeQuery, nodeIds,
              nodesWithDepth, ix, depth, parentId, threw, uuidCount>>

NodeData(id, label, parent) ==
    [group |-> "nodes", id |-> id, label |-> label, parent |-> parent,
     source |-> NoId, target |-> NoId]
EdgeData(id, source, target, label) ==
    [group |-> "edges", id |-> id, label |-> label, parent |-> NoId,
     source |-> source, target |-> target]

CyIds(elems) == {elems[k].id : k \in 1..Len(elems)}
CyNodeIds(elems) == {elems[k].id : k \in {j \in 1..Len(elems) : elems[j].group = "nodes"}}
CyEdges(elems) == {elems[k] : k \in {j \in 1..Len(elems) : elems[j].group = "edges"}}
CyNodes(elems) == {elems[k] : k \in {j \in 1..Len(elems) : elems[j].group = "nodes"}}

\* cy.add: parent can be set at add time only; a parent that is not in the
\* graph at that moment becomes undefined
CyAddWithoutParent(elems, data) == Append(elems, [data EXCEPT !.parent = NoId])
CyAdd(elems, data) ==
    Append(elems,
           IF data.parent # NoId /\ data.parent \notin CyIds(elems)
           THEN [data EXCEPT !.parent = NoId]
           ELSE data)

\* positions after elements were added: a new node sits at the default position
PosAfterAdd(pos, elems) ==
    [id \in CyNodeIds(elems) |-> IF id \in DOMAIN pos THEN pos[id] ELSE DefaultPos]

(***************************************************************************)
(* View state: collectViewState / applyViewState of useViewState.          *)
(***************************************************************************)
EmptyViewState ==
    [positions |-> <<>>, camera |-> NoCamera, selected |-> {},
     collapsed |-> {}, locked |-> FALSE]

PartialFns(S, T) == UNION {[X -> T] : X \in SUBSET S}

\* collect(): position of every node, camera, selection, collapsed set, lock flag
CollectViewState(elems, pos, camera, selected, collapsed, locked) ==
    [positions |-> [id \in CyNodeIds(elems) |-> pos[id]],
     camera |-> camera,
     selected |-> selected,
     collapsed |-> collapsed,
     locked |-> locked]

\* apply(viewState): the attributes of the live model after it
ApplyPositions(vs, elems, pos) ==
    [id \in DOMAIN pos |->
        IF id \in DOMAIN vs.positions /\ id \in CyNodeIds(elems)
        THEN vs.positions[id] ELSE pos[id]]
ApplyCamera(vs, camera) == IF vs.camera # NoCamera THEN vs.camera ELSE camera
ApplySelected(vs, elems) == vs.selected \cap CyIds(elems)
ApplyCollapsed(vs, elems) == vs.collapsed \cap CyNodeIds(elems)
ApplyLocked(vs) == vs.locked

(***************************************************************************)
(* applyToCytoscape, statement by statement.                               *)
(***************************************************************************)
\* cy.elements().remove()
RemoveElements(elems) == <<>>

\* ensureNodeExists(id): a placeholder node for an id not in nodeIds
EnsureNodeExistsRegistersOnly(ids, elems, id) ==
    [nodeIds |-> ids \cup {id}, elems |-> elems]
EnsureNodeExistsUnregistered(ids, elems, id) ==
    IF id \in ids
    THEN [nodeIds |-> ids, elems |-> elems]
    ELSE [nodeIds |-> ids, elems |-> CyAdd(elems, NodeData(id, id, NoId))]
EnsureNodeExists(ids, elems, id) ==
    IF id \in ids
    THEN [nodeIds |-> ids, elems |-> elems]
    ELSE [nodeIds |-> ids \cup {id}, elems |-> CyAdd(elems, NodeData(id, id, NoId))]

\* nodesWithDepth.sort: ascending depth, equal depths keep their order
RECURSIVE InsertByDepth(_, _)
InsertByDepth(sorted, e) ==
    IF sorted = <<>> THEN <<e>>
    ELSE IF e.depth < sorted[Len(sorted)].depth
         THEN Append(InsertByDepth(SubSeq(sorted, 1, Len(sorted) - 1), e),
                     sorted[Len(sorted)])
         ELSE Append(sorted, e)
SortByDepthNoOp(arr) == arr
RECURSIVE SortByDepth(_)
SortByDepth(arr) ==
    IF arr = <<>> THEN <<>>
    ELSE InsertByDepth(SortByDepth(SubSeq(arr, 1, Len(arr) - 1)), arr[Len(arr)])

ResetLocals ==
    /\ viewStateBeforeQuery' = EmptyViewState
    /\ nodeIds' = {}
    /\ nodesWithDepth' = <<>>
    /\ ix' = 0
    /\ depth' = 0
    /\ parentId' = NoId

InitSync ==
    /\ cy = FALSE
    /\ cyElems = <<>>
    /\ cyPos = <<>>
    /\ cyCamera = "c0"
    /\ cySelected = {}
    /\ cyCollapsed = {}
    /\ cyLocked = FALSE
    /\ batch = 0
    /\ pc = "idle"
    /\ dataSet = EmptyDataSet
    /\ viewState = EmptyViewState
    /\ viewStateBeforeQuery = EmptyViewState
    /\ nodeIds = {}
    /\ nodesWithDepth = <<>>
    /\ ix = 0
    /\ depth = 0
    /\ parentId = NoId
    /\ threw = FALSE
    /\ uuidCount = 0
    /\ nodesLocked = FALSE

InitApp ==
    /\ dataSource = Undefined
    /\ dsHandler = Undefined
    /\ initialDataSetForGraph = <<>>
    /\ initialViewStateForGraph = <<>>
    /\ nowLoading = TRUE
    /\ reloads = <<>>
    /\ messages = 0
    /\ graphDirty = FALSE
    /\ issued = 0
    /\ shown = <<>>

(***************************************************************************)
(* StorageUtil.useLocalStorage: keys, handlers and values.  A value that    *)
(* may be missing (a cache entry, a stored string) is <<>> or <<value>>.    *)
(***************************************************************************)
MaxConsumers == 3
MaxSaves == 2

StorageKeys == {"k1", "k2"}

\* the components that call useLocalStorage, and the storageKey of each one's
\* handler
Consumers == 1..MaxConsumers
KeyOf(c) == IF c % 2 = 1 THEN "k1" ELSE "k2"

\* the values of type T
SettingValues == [activeNeo4jServerId : {Undefined, "s1"}, neo4jServer : {<<>>, <<"s1">>}]

\* handler.defaultValue()
DefaultValue == [activeNeo4jServerId |-> Undefined, neo4jServer |-> <<>>]

\* a stored string that is not what deserialize expects
Garbage == [garbage |-> TRUE]

\* handler.serialize: JSON.stringify leaves out a property that is undefined
Serialize(obj) ==
    IF obj.activeNeo4jServerId = Undefined
    THEN [neo4jServer |-> obj.neo4jServer]
    ELSE [activeNeo4jServerId |-> obj.activeNeo4jServerId, neo4jServer |-> obj.neo4jServer]

\* handler.deserialize: a DeserializeResult; a missing property is filled in
Deserialize(str) ==
    IF "garbage" \in DOMAIN str
    THEN [ok |-> FALSE, obj |-> DefaultValue]
    ELSE [ok |-> TRUE,
          obj |-> [activeNeo4jServerId |->
                       IF "activeNeo4jServerId" \in DOMAIN str
                       THEN str.activeNeo4jServerId ELSE Undefined,
                   neo4jServer |->
                       IF "neo4jServer" \in DOMAIN str
                       THEN str.neo4jServer ELSE <<>>]]

\* what localStorage may hold for a key when the application starts
StoredStrings ==
    {Garbage, [activeNeo4jServerId |-> "s1"], Serialize(DefaultValue),
     Serialize([activeNeo4jServerId |-> "s1", neo4jServer |-> <<"s1">>])}

\* the reducer of LocalStorageContext: cache(key, value)
CacheReducer(state, key, value) == [state EXCEPT ![key] = <<value>>]

\* data: cachedData ?? handler.defaultValue()
Data(c) ==
    IF cache[KeyOf(c)] = <<>> THEN DefaultValue ELSE cache[KeyOf(c)][1]

\* getInitialState, and no component mounted yet
InitStorage ==
    /\ cache = [k \in StorageKeys |-> <<>>]
    /\ consumer = [c \in Consumers |-> "unmounted"]
    /\ lastSaved = [k \in StorageKeys |-> <<>>]
    /\ storageReads = [k \in StorageKeys |-> 0]
    /\ cacheWrites = [k \in StorageKeys |-> 0]
    /\ storageWrites = [k \in StorageKeys |-> 0]

\* Tree.toTree has not been called yet
InitTree ==
    /\ treeNodes = <<>>
    /\ treeChildNodes = {}
    /\ treePc = "start"
    /\ treeIx = 0
    /\ treeCur = 0
    /\ treeArr = 0
    /\ treeRoots = <<>>
    /\ treeFlat = <<>>

\* containerRef: the cytoscape instance is created once, with no elements
ContainerRef ==
    /\ pc = "idle"
    /\ ~cy
    /\ cy' = TRUE
    /\ UNCHANGED <<cyElems, cyPos, cyCamera, cySelected, cyCollapsed, cyLocked, batch>>
    /\ UNCHANGED syncVars
    /\ UNCHANGED NotSyncVars

\* a caller invokes applyToCytoscape(dataSet, viewState)
CallApplyToCytoscape ==
    /\ pc = "idle"
    /\ pc' = "call"
    /\ UNCHANGED cyVars
    /\ UNCHANGED <<dataSet, viewState, viewStateBeforeQuery, nodeIds, nodesWithDepth,
                   ix, depth, parentId, threw, uuidCount>>
    /\ UNCHANGED NotSyncVars

\* if (!cy) return
ApplyNoCy ==
    /\ pc = "call"
    /\ ~cy
    /\ pc' = "idle"
    /\ UNCHANGED cyVars
    /\ UNCHANGED <<dataSet, viewState, viewStateBeforeQuery, nodeIds, nodesWithDepth,
                   ix, depth, parentId, threw, uuidCount>>
    /\ UNCHANGED NotSyncVars

\* cy.startBatch()
StartBatch ==
    /\ pc = "call"
    /\ cy
    /\ batch' = batch + 1
    /\ threw' = FALSE
    /\ pc' = "collect"
    /\ UNCHANGED <<cy, cyElems, cyPos, cyCamera, cySelected, cyCollapsed, cyLocked>>
    /\ UNCHANGED <<dataSet, viewState, viewStateBeforeQuery, nodeIds, nodesWithDepth,
                   ix, depth, parentId, uuidCount>>
    /\ UNCHANGED NotSyncVars

\* const viewStateBeforeQuery = collectViewState()
Collect ==
    /\ pc = "collect"
    /\ viewStateBeforeQuery' =
          CollectViewState(cyElems, cyPos, cyCamera, cySelected, cyCollapsed, cyLocked)
    /\ pc' = "remove"
    /\ UNCHANGED cyVars
    /\ UNCHANGED <<dataSet, viewState, nodeIds, nodesWithDepth, ix, depth, parentId,
                   threw, uuidCount>>
    /\ UNCHANGED NotSyncVars

\* cy.elements().remove(); const nodeIds = new Set(Object.keys(dataSet.nodes))
\* The arguments (dataSet, viewState) are immutable and not read before this
\* statement, so they are drawn here, where dataSet is first read.
Remove(D, V) ==
    /\ pc = "remove"
    /\ uuidCount + Len(D.edges) <= MaxUuid
    /\ dataSet' = D
    /\ viewState' = V
    /\ cyElems' = RemoveElements(cyElems)
    /\ cyPos' = [id \in CyNodeIds(cyElems') |-> cyPos[id]]
    /\ cySelected' = cySelected \cap CyIds(cyElems')
    /\ cyCollapsed' = cyCollapsed \cap CyNodeIds(cyElems')
    /\ nodeIds' = NodeKeys(D)
    /\ nodesWithDepth' = <<>>
    /\ ix' = 1
    /\ depth' = 0
    /\ parentId' = IF Len(D.nodes) >= 1 THEN D.nodes[1].parent ELSE NoId
    /\ pc' = "depth"
    /\ UNCHANGED <<cy, cyCamera, cyLocked, batch>>
    /\ UNCHANGED <<viewStateBeforeQuery, threw, uuidCount>>
    /\ UNCHANGED NotSyncVars

\* the depth walk counts past this only when the parent chain is circular
DepthCap == MaxNodes + 1

\* the walk gives depth 0 to a node whose chain ends at an absent parent
DepthWalkBrokenIsZero ==
    /\ pc = "depth"
    /\ IF ix > Len(dataSet.nodes)
       THEN /\ pc' = "sort"
            /\ UNCHANGED <<nodesWithDepth, ix, depth, parentId>>
       ELSE IF parentId # NoId /\ HasNode(dataSet, parentId)
       THEN /\ depth' = IF depth < DepthCap THEN depth + 1 ELSE depth
            /\ parentId' = NodeOf(dataSet, parentId).parent
            /\ UNCHANGED <<pc, nodesWithDepth, ix>>
       ELSE /\ nodesWithDepth' =
                  Append(nodesWithDepth,
                         [id |-> dataSet.nodes[ix].id, node |-> dataSet.nodes[ix],
                          depth |-> IF parentId # NoId THEN 0 ELSE depth])
            /\ ix' = ix + 1
            /\ depth' = 0
            /\ parentId' = IF ix + 1 <= Len(dataSet.nodes)
                           THEN dataSet.nodes[ix + 1].parent ELSE NoId
            /\ UNCHANGED pc
    /\ UNCHANGED cyVars
    /\ UNCHANGED <<dataSet, viewState, viewStateBeforeQuery, nodeIds, threw, uuidCount>>
    /\ UNCHANGED NotSyncVars

\* the walk stops after DepthCap parent references
DepthWalkGuarded ==
    /\ pc = "depth"
    /\ IF ix > Len(dataSet.nodes)
       THEN /\ pc' = "sort"
            /\ UNCHANGED <<nodesWithDepth, ix, depth, parentId>>
       ELSE IF parentId # NoId /\ HasNode(dataSet, parentId) /\ depth < DepthCap
       THEN /\ depth' = IF depth < DepthCap THEN depth + 1 ELSE depth
            /\ parentId' = NodeOf(dataSet, parentId).parent
            /\ UNCHANGED <<pc, nodesWithDepth, ix>>
       ELSE /\ nodesWithDepth' =
                  Append(nodesWithDepth,
                         [id |-> dataSet.nodes[ix].id, node |-> dataSet.nodes[ix],
                          depth |-> depth])
            /\ ix' = ix + 1
            /\ depth' = 0
            /\ parentId' = IF ix + 1 <= Len(dataSet.nodes)
                           THEN dataSet.nodes[ix + 1].parent ELSE NoId
            /\ UNCHANGED pc
    /\ UNCHANGED cyVars
    /\ UNCHANGED <<dataSet, viewState, viewStateBeforeQuery, nodeIds, threw, uuidCount>>
    /\ UNCHANGED NotSyncVars

\* one turn of: while (parentId) { parent = dataSet.nodes[parentId];
\*   if (!parent) break; depth++; parentId = parent.parent }; arr.push(...)
DepthWalk ==
    /\ pc = "depth"
    /\ IF ix > Len(dataSet.nodes)
       THEN /\ pc' = "sort"
            /\ UNCHANGED <<nodesWithDepth, ix, depth, parentId>>
       ELSE IF parentId # NoId /\ HasNode(dataSet, parentId)
       THEN /\ depth' = IF depth < DepthCap THEN depth + 1 ELSE depth
            /\ parentId' = NodeOf(dataSet, parentId).parent
            /\ UNCHANGED <<pc, nodesWithDepth, ix>>
       ELSE /\ nodesWithDepth' =
                  Append(nodesWithDepth,
                         [id |-> dataSet.nodes[ix].id, node |-> dataSet.nodes[ix],
                          depth |-> depth])
            /\ ix' = ix + 1
            /\ depth' = 0
            /\ parentId' = IF ix + 1 <= Len(dataSet.nodes)
                           THEN dataSet.nodes[ix + 1].parent ELSE NoId
            /\ UNCHANGED pc
    /\ UNCHANGED cyVars
    /\ UNCHANGED <<dataSet, viewState, viewStateBeforeQuery, nodeIds, threw, uuidCount>>
    /\ UNCHANGED NotSyncVars

\* nodesWithDepth.sort(...)
Sort ==
    /\ pc = "sort"
    /\ nodesWithDepth' = SortByDepth(nodesWithDepth)
    /\ ix' = 1
    /\ pc' = "nodes"
    /\ UNCHANGED cyVars
    /\ UNCHANGED <<dataSet, viewState, viewStateBeforeQuery, nodeIds, depth, parentId,
                   threw, uuidCount>>
    /\ UNCHANGED NotSyncVars

\* one turn of: for (const { id, node } of nodesWithDepth) { ... cy.add(...) }
InsertNode ==
    /\ pc = "nodes"
    /\ IF ix > Len(nodesWithDepth)
       THEN /\ pc' = "edges"
            /\ ix' = 1
            /\ UNCHANGED <<cyElems, cyPos, nodeIds>>
       ELSE LET e == nodesWithDepth[ix]
                r == IF e.node.parent # NoId
                     THEN EnsureNodeExists(nodeIds, cyElems, e.node.parent)
                     ELSE [nodeIds |-> nodeIds, elems |-> cyElems]
            IN /\ cyElems' = CyAdd(r.elems, NodeData(e.id, e.node.label, e.node.parent))
               /\ cyPos' = PosAfterAdd(cyPos, cyElems')
               /\ nodeIds' = r.nodeIds
               /\ ix' = ix + 1
               /\ UNCHANGED pc
    /\ UNCHANGED <<cy, cyCamera, cySelected, cyCollapsed, cyLocked, batch>>
    /\ UNCHANGED <<dataSet, viewState, viewStateBeforeQuery, nodesWithDepth, depth,
                   parentId, threw, uuidCount>>
    /\ UNCHANGED NotSyncVars

\* the edge gets an identifier made from its position in dataSet.edges
InsertEdgeIdByPosition ==
    /\ pc = "edges"
    /\ IF ix > Len(dataSet.edges)
       THEN /\ pc' = "apply1"
            /\ UNCHANGED <<cyElems, cyPos, nodeIds, ix, uuidCount>>
       ELSE LET e == dataSet.edges[ix]
                r1 == EnsureNodeExists(nodeIds, cyElems, e.source)
                r2 == EnsureNodeExists(r1.nodeIds, r1.elems, e.target)
                id == UuidName[ix]
            IN /\ cyElems' = CyAdd(r2.elems, EdgeData(id, e.source, e.target, e.label))
               /\ cyPos' = PosAfterAdd(cyPos, cyElems')
               /\ nodeIds' = r2.nodeIds
               /\ uuidCount' = uuidCount + 1
               /\ ix' = ix + 1
               /\ UNCHANGED pc
    /\ UNCHANGED <<cy, cyCamera, cySelected, cyCollapsed, cyLocked, batch>>
    /\ UNCHANGED <<dataSet, viewState, viewStateBeforeQuery, nodesWithDepth, depth,
                   parentId, threw>>
    /\ UNCHANGED NotSyncVars

\* one turn of: for (const { source, target, label } of dataSet.edges) { ... }
InsertEdge ==
    /\ pc = "edges"
    /\ IF ix > Len(dataSet.edges)
       THEN /\ pc' = "apply1"
            /\ UNCHANGED <<cyElems, cyPos, nodeIds, ix, uuidCount>>
       ELSE LET e == dataSet.edges[ix]
                r1 == EnsureNodeExists(nodeIds, cyElems, e.source)
                r2 == EnsureNodeExists(r1.nodeIds, r1.elems, e.target)
                id == UuidName[uuidCount + 1]
            IN /\ cyElems' = CyAdd(r2.elems, EdgeData(id, e.source, e.target, e.label))
               /\ cyPos' = PosAfterAdd(cyPos, cyElems')
               /\ nodeIds' = r2.nodeIds
               /\ uuidCount' = uuidCount + 1
               /\ ix' = ix + 1
               /\ UNCHANGED pc
    /\ UNCHANGED <<cy, cyCamera, cySelected, cyCollapsed, cyLocked, batch>>
    /\ UNCHANGED <<dataSet, viewState, viewStateBeforeQuery, nodesWithDepth, depth,
                   parentId, threw>>
    /\ UNCHANGED NotSyncVars

\* applyViewState(vs) on the live model
ApplyViewState(vs) ==
    /\ cyPos' = ApplyPositions(vs, cyElems, cyPos)
    /\ cyCamera' = ApplyCamera(vs, cyCamera)
    /\ cySelected' = ApplySelected(vs, cyElems)
    /\ cyCollapsed' = ApplyCollapsed(vs, cyElems)
    /\ cyLocked' = ApplyLocked(vs)
    /\ UNCHANGED <<cy, cyElems, batch>>

\* applyViewState(viewState)
ApplyLoaded ==
    /\ pc = "apply1"
    /\ ApplyViewState(viewState)
    /\ pc' = "apply2"
    /\ UNCHANGED <<dataSet, viewState, viewStateBeforeQuery, nodeIds, nodesWithDepth,
                   ix, depth, parentId, threw, uuidCount>>
    /\ UNCHANGED NotSyncVars

\* applyViewState(viewStateBeforeQuery)
ApplyBeforeQuerySkipped ==
    /\ pc = "apply2"
    /\ pc' = "finally"
    /\ UNCHANGED cyVars
    /\ UNCHANGED <<dataSet, viewState, viewStateBeforeQuery, nodeIds, nodesWithDepth,
                   ix, depth, parentId, threw, uuidCount>>
    /\ UNCHANGED NotSyncVars
ApplyBeforeQuery ==
    /\ pc = "apply2"
    /\ ApplyViewState(viewStateBeforeQuery)
    /\ pc' = "finally"
    /\ UNCHANGED <<dataSet, viewState, viewStateBeforeQuery, nodeIds, nodesWithDepth,
                   ix, depth, parentId, threw, uuidCount>>
    /\ UNCHANGED NotSyncVars

\* the statements of the try block that call into cytoscape or useViewState;
\* the depth walk and the sort only read dataSet and cannot throw
TryPcs == {"collect", "remove", "nodes", "edges", "apply1", "apply2"}

\* a statement of the try block throws: control goes to the finally block
ThrowPastFinally ==
    /\ pc \in TryPcs
    /\ pc' = "idle"
    /\ threw' = TRUE
    /\ UNCHANGED cyVars
    /\ UNCHANGED <<dataSet, viewState, viewStateBeforeQuery, nodeIds, nodesWithDepth,
                   ix, depth, parentId, uuidCount>>
    /\ UNCHANGED NotSyncVars
Throw ==
    /\ pc \in TryPcs
    /\ pc' = "finally"
    /\ threw' = TRUE
    /\ UNCHANGED cyVars
    /\ UNCHANGED <<dataSet, viewState, viewStateBeforeQuery, nodeIds, nodesWithDepth,
                   ix, depth, parentId, uuidCount>>
    /\ UNCHANGED NotSyncVars

\* finally { cy.endBatch() }
EndBatch ==
    /\ pc = "finally"
    /\ batch' = batch - 1
    /\ pc' = "idle"
    /\ dataSet' = EmptyDataSet
    /\ viewState' = EmptyViewState
    /\ threw' = FALSE
    /\ ResetLocals
    /\ UNCHANGED <<cy, cyElems, cyPos, cyCamera, cySelected, cyCollapsed, cyLocked, uuidCount>>
    /\ UNCHANGED NotSyncVars

SyncStep ==
    \/ ApplyNoCy
    \/ StartBatch
    \/ Collect
    \/ DepthWalk
    \/ Sort
    \/ InsertNode
    \/ InsertEdge
    \/ ApplyLoaded
    \/ ApplyBeforeQuery
    \/ Throw
    \/ EndBatch

vars == <<cyVars, syncVars, uiVars, appVars, storageVars, treeVars>>

(***************************************************************************)
(* Spec: synchronization of every data set, under a few view states.       *)
(***************************************************************************)
FewViewStates ==
    {EmptyViewState,
     [positions |-> [id \in {"a"} |-> "p1"], camera |-> NoCamera,
      selected |-> {}, collapsed |-> {}, locked |-> FALSE]}

Init ==
    /\ InitSync
    /\ InitApp
    /\ InitStorage
    /\ localStorage = [k \in StorageKeys |-> <<>>]
    /\ InitTree
    /\ treeItems = <<>>
    /\ treeMode = "parent"

Next ==
    \/ ContainerRef
    \/ CallApplyToCytoscape
    \/ \E D \in AllDataSets, V \in FewViewStates : Remove(D, V)
    \/ SyncStep

Spec == Init /\ [][Next]_vars

(***************************************************************************)
(* Properties of the synchronization.                                      *)
(***************************************************************************)
\* applyToCytoscape has run to the end of its try block without an error
Completed == pc = "finally" /\ ~threw

\* the identifiers dataSet refers to: parents, sources and targets
ParentRefs(D) == {D.nodes[k].parent : k \in 1..Len(D.nodes)} \ {NoId}
EdgeRefs(D) ==
    {D.edges[k].source : k \in 1..Len(D.edges)} \cup
    {D.edges[k].target : k \in 1..Len(D.edges)}
Referenced(D) == ParentRefs(D) \cup EdgeRefs(D)

\* C1: after applyToCytoscape completes, the source and the target of every
\* edge element of the live model is the identifier of a node element of the
\* live model: a node of the data set, or a placeholder (label = identifier).
C1_NoDanglingEdgeEndpoints ==
    Completed =>
        \A e \in CyEdges(cyElems) : \A x \in {e.source, e.target} :
            \E n \in CyNodes(cyElems) :
                /\ n.id = x
                /\ x \in NodeKeys(dataSet) \/ n.label = x

C1_Witness ==
    /\ Completed
    /\ \E e \in CyEdges(cyElems) :
          e.target = DanglingId /\ e.source \in NodeKeys(dataSet)

\* C2: whenever a node of the data set that names a parent has been added to
\* the live model, an element with that identifier was added before it, and
\* the node was attached to it (it was not silently detached).
InsertPcs == {"nodes", "edges", "apply1", "apply2", "finally"}
C2_ParentInsertedBeforeChild ==
    pc \in InsertPcs =>
        \A k \in 1..Len(cyElems) :
            (/\ cyElems[k].group = "nodes"
             /\ cyElems[k].id \in NodeKeys(dataSet)
             /\ NodeOf(dataSet, cyElems[k].id).parent # NoId)
            => /\ \E j \in 1..(k - 1) :
                     cyElems[j].id = NodeOf(dataSet, cyElems[k].id).parent
               /\ cyElems[k].parent = NodeOf(dataSet, cyElems[k].id).parent

\* a data set that lists a child before its parent has been synchronized
C2_Witness ==
    /\ Completed
    /\ Len(dataSet.nodes) = 2
    /\ dataSet.nodes[1].parent = dataSet.nodes[2].id
    /\ \E k \in 1..Len(cyElems) : cyElems[k].parent = dataSet.nodes[2].id

\* C3: after applyToCytoscape(D) completes the live model holds exactly one
\* node per key of D.nodes (D's label and parent), one placeholder per
\* referenced identifier that is no key of D.nodes, and one edge per entry of
\* D.edges (its source, target and label, in order); nothing else.
EdgeSeq(elems) == SelectSeq(elems, LAMBDA e : e.group = "edges")
C3_ModelIsExactlyDataSet ==
    Completed =>
        /\ CyNodes(cyElems) =
              {NodeData(n.id, n.label, n.parent) : n \in Range(dataSet.nodes)}
              \cup {NodeData(x, x, NoId) : x \in Referenced(dataSet) \ NodeKeys(dataSet)}
        /\ Len(EdgeSeq(cyElems)) = Len(dataSet.edges)
        /\ \A k \in 1..Len(dataSet.edges) :
              /\ EdgeSeq(cyElems)[k].source = dataSet.edges[k].source
              /\ EdgeSeq(cyElems)[k].target = dataSet.edges[k].target
              /\ EdgeSeq(cyElems)[k].label = dataSet.edges[k].label
        /\ Cardinality(CyIds(cyElems)) = Len(cyElems)

\* a model that held nodes is rebuilt from a data set with a child, a
\* dangling edge target and so a placeholder
C3_Witness ==
    /\ Completed
    /\ DOMAIN viewStateBeforeQuery.positions # {}
    /\ Len(dataSet.nodes) = 2
    /\ Len(dataSet.edges) = 1
    /\ DanglingId \in CyNodeIds(cyElems)
    /\ ParentRefs(dataSet) # {}

\* C6: inside applyToCytoscape every step that changes the live model is
\* taken with the batch open (after startBatch, before endBatch), and the
\* batch is closed exactly once for each startBatch: it is open while the
\* call runs and closed when the call has returned or thrown.
C6_MutationsInsideOneBatch ==
    [][/\ (pc # "idle" /\ <<cyElems, cyPos, cyCamera, cySelected, cyCollapsed, cyLocked>>'
                          # <<cyElems, cyPos, cyCamera, cySelected, cyCollapsed, cyLocked>>)
          => (batch = 1 /\ batch' = 1)
       /\ batch' = (IF pc' \in {"idle", "call"} THEN 0 ELSE 1)]_vars

\* an internal error after elements were inserted has reached the finally block
C6_Witness ==
    /\ pc = "finally"
    /\ threw
    /\ Len(cyElems) > 0
    /\ batch = 1

(***************************************************************************)
(* SpecView: a few data sets synchronized under many view states, with the *)
(* toolbar actions that change the view state between reloads.             *)
(***************************************************************************)
\* selectAll: cy?.nodes().select()
SelectAll ==
    /\ pc = "idle"
    /\ cy
    /\ cySelected' = cySelected \cup CyNodeIds(cyElems)
    /\ UNCHANGED <<cy, cyElems, cyPos, cyCamera, cyCollapsed, cyLocked, batch>>
    /\ UNCHANGED syncVars
    /\ UNCHANGED uiVars
    /\ UNCHANGED appVars
    /\ UNCHANGED storageVars
    /\ UNCHANGED treeVars

\* toggleNodesLocked
ToggleNodesLocked ==
    /\ pc = "idle"
    /\ IF ~cy
       THEN /\ nodesLocked' = FALSE
            /\ UNCHANGED cyLocked
       ELSE /\ nodesLocked' = ~nodesLocked
            /\ cyLocked' = ~nodesLocked
    /\ UNCHANGED <<cy, cyElems, cyPos, cyCamera, cySelected, cyCollapsed, batch>>
    /\ UNCHANGED syncVars
    /\ UNCHANGED appVars
    /\ UNCHANGED storageVars
    /\ UNCHANGED treeVars

ViewDataSets ==
    {EmptyDataSet,
     [nodes |-> <<[id |-> "a", label |-> "p", parent |-> NoId]>>, edges |-> <<>>],
     [nodes |-> <<[id |-> "a", label |-> "p", parent |-> NoId],
                  [id |-> "b", label |-> "p", parent |-> "a"]>>,
      edges |-> <<[source |-> "b", target |-> DanglingId, label |-> "e"]>>]}

\* persisted view states: a position for node a or none, a camera or none,
\* and node a selected and collapsed with the lock set, or nothing of it
ViewStates ==
    {[positions |-> f, camera |-> c,
      selected |-> IF on THEN {"a"} ELSE {},
      collapsed |-> IF on THEN {"a"} ELSE {},
      locked |-> on] :
        f \in PartialFns({"a"}, Positions \ {DefaultPos}),
        c \in {NoCamera, "c1"},
        on \in BOOLEAN}

NextView ==
    \/ ContainerRef
    \/ CallApplyToCytoscape
    \/ \E D \in ViewDataSets, V \in ViewStates : Remove(D, V)
    \/ SyncStep
    \/ SelectAll
    \/ ToggleNodesLocked

SpecView == Init /\ [][NextView]_vars

(***************************************************************************)
(* Properties of the view state across a synchronization.                  *)
(***************************************************************************)
\* C4: the pre-reload view state is captured from the live model before its
\* elements are removed; the view states are applied when all nodes and edges
\* are in, the loaded one first and the captured one second; so a node's
\* final position is the captured one when there is one, and otherwise the
\* loaded one when there is one.
C4_CapturedOverLoadedPositions ==
    /\ pc = "remove" =>
          viewStateBeforeQuery =
             CollectViewState(cyElems, cyPos, cyCamera, cySelected, cyCollapsed, cyLocked)
    /\ pc \in {"apply1", "apply2"} =>
          /\ NodeKeys(dataSet) \subseteq CyNodeIds(cyElems)
          /\ Len(EdgeSeq(cyElems)) = Len(dataSet.edges)
    /\ Completed =>
          \A id \in CyNodeIds(cyElems) :
             /\ id \in DOMAIN viewStateBeforeQuery.positions
                   => cyPos[id] = viewStateBeforeQuery.positions[id]
             /\ (id \notin DOMAIN viewStateBeforeQuery.positions
                 /\ id \in DOMAIN viewState.positions)
                   => cyPos[id] = viewState.positions[id]

\* a node has a captured position and a different loaded one
C4_Witness ==
    /\ Completed
    /\ \E id \in CyNodeIds(cyElems) :
          /\ id \in DOMAIN viewStateBeforeQuery.positions
          /\ id \in DOMAIN viewState.positions
          /\ viewStateBeforeQuery.positions[id] # viewState.positions[id]

\* C5: when applyToCytoscape runs on a live model without elements, the view
\* state of the model afterwards is the loaded one: positions, camera,
\* selection, collapsed set and lock flag are those of viewState.
C5_FirstLoadShowsLoadedViewState ==
    (Completed /\ DOMAIN viewStateBeforeQuery.positions = {}) =>
        /\ \A id \in CyNodeIds(cyElems) \cap DOMAIN viewState.positions :
              cyPos[id] = viewState.positions[id]
        /\ viewState.camera # NoCamera => cyCamera = viewState.camera
        /\ cySelected = viewState.selected \cap CyIds(cyElems)
        /\ cyCollapsed = viewState.collapsed \cap CyNodeIds(cyElems)
        /\ cyLocked = viewState.locked

(***************************************************************************)
(* App.reload and the hand-over of its result to GraphView.                *)
(***************************************************************************)
MaxInFlight == 2
MaxMessages == 1
MaxReloads == 3

\* dataSource.type of the data sources the handlers tell apart
Sources == {"file", "neo4j", Undefined}

\* defineHandler: the first of [file, neo4j, default] that matches
DefineHandler(source) ==
    IF source = "file" THEN "file"
    ELSE IF source = "neo4j" THEN "neo4j"
    ELSE "default"

RemoveAt(seq, i) == SubSeq(seq, 1, i - 1) \o SubSeq(seq, i + 1, Len(seq))

\* what handler.reload(source) can resolve to
AppDataSets ==
    {[nodes |-> <<[id |-> "a", label |-> "p", parent |-> NoId]>>, edges |-> <<>>],
     [nodes |-> <<[id |-> "b", label |-> "p", parent |-> DanglingId]>>,
      edges |-> <<[source |-> "b", target |-> "b", label |-> "e"]>>]}
ReloadResults(handler) == IF handler = "default" THEN {EmptyDataSet} ELSE AppDataSets
\* what loadViewStateFile() can resolve to
AppViewStates == FewViewStates

\* reload(source), up to its first await:
\* setNowLoading(true); handler = defineHandler(source); handler.reload(source)
ReloadStart(source) ==
    /\ pc = "idle"
    /\ Len(reloads) < MaxInFlight
    /\ issued < MaxReloads
    /\ issued' = issued + 1
    /\ nowLoading' = TRUE
    /\ reloads' = Append(reloads, [source |-> source, handler |-> DefineHandler(source),
                                   stage |-> "handler", dataSet |-> EmptyDataSet,
                                   call |-> issued + 1])
    /\ UNCHANGED <<dataSource, dsHandler, initialDataSetForGraph,
                   initialViewStateForGraph, messages, graphDirty, shown>>
    /\ UNCHANGED <<cyVars, syncVars, uiVars, storageVars, treeVars>>

\* the timer of the first effect: reload(await loadTargetFile())
LoadTargetFile == \E source \in Sources : dataSource = Undefined /\ ReloadStart(source)

\* reloadByCurrentData: if (dataSource) await reload(dataSource)
ReloadByCurrentData == dataSource # Undefined /\ ReloadStart(dataSource)

\* the Editor's onChange={setDataSource}
EditDataSource(source) ==
    /\ pc = "idle"
    /\ dsHandler # Undefined
    /\ source # Undefined
    /\ dataSource' = source
    /\ UNCHANGED <<dsHandler, initialDataSetForGraph, initialViewStateForGraph,
                   nowLoading, reloads, messages, graphDirty>>
    /\ UNCHANGED <<issued, shown>>
    /\ UNCHANGED <<cyVars, syncVars, uiVars, storageVars, treeVars>>

\* handler.reload resolves: dataSet = ...; loadViewStateFile() is awaited
HandlerResolves(i, D) ==
    /\ pc = "idle"
    /\ i \in 1..Len(reloads)
    /\ reloads[i].stage = "handler"
    /\ D \in ReloadResults(reloads[i].handler)
    /\ reloads' = [reloads EXCEPT ![i].stage = "viewState", ![i].dataSet = D]
    /\ UNCHANGED <<dataSource, dsHandler, initialDataSetForGraph,
                   initialViewStateForGraph, nowLoading, messages, graphDirty>>
    /\ UNCHANGED <<issued, shown>>
    /\ UNCHANGED <<cyVars, syncVars, uiVars, storageVars, treeVars>>

\* handler.reload or loadViewStateFile rejects (the default handler never does)
AwaitRejects(i) ==
    /\ pc = "idle"
    /\ i \in 1..Len(reloads)
    /\ \/ reloads[i].stage = "handler" /\ reloads[i].handler # "default"
       \/ reloads[i].stage = "viewState"
    /\ messages < MaxMessages
    /\ reloads' = [reloads EXCEPT ![i].stage = "rejected"]
    /\ UNCHANGED <<dataSource, dsHandler, initialDataSetForGraph,
                   initialViewStateForGraph, nowLoading, messages, graphDirty>>
    /\ UNCHANGED <<issued, shown>>
    /\ UNCHANGED <<cyVars, syncVars, uiVars, storageVars, treeVars>>

\* catch (error) { dispatchMessage(...) } finally { setNowLoading(false) }
ReloadCatchKeepsLoading(i) ==
    /\ pc = "idle"
    /\ i \in 1..Len(reloads)
    /\ reloads[i].stage = "rejected"
    /\ messages' = messages + 1
    /\ reloads' = RemoveAt(reloads, i)
    /\ UNCHANGED <<dataSource, dsHandler, initialDataSetForGraph,
                   initialViewStateForGraph, nowLoading, graphDirty>>
    /\ UNCHANGED <<issued, shown>>
    /\ UNCHANGED <<cyVars, syncVars, uiVars, storageVars, treeVars>>
ReloadCatch(i) ==
    /\ pc = "idle"
    /\ i \in 1..Len(reloads)
    /\ reloads[i].stage = "rejected"
    /\ messages' = messages + 1
    /\ nowLoading' = FALSE
    /\ reloads' = RemoveAt(reloads, i)
    /\ UNCHANGED <<dataSource, dsHandler, initialDataSetForGraph,
                   initialViewStateForGraph, graphDirty>>
    /\ UNCHANGED <<issued, shown>>
    /\ UNCHANGED <<cyVars, syncVars, uiVars, storageVars, treeVars>>

\* the response of a call made before the call whose response is displayed
\* is dropped
ViewStateResolvesDropsStale(i, V) ==
    /\ pc = "idle"
    /\ i \in 1..Len(reloads)
    /\ reloads[i].stage = "viewState"
    /\ IF shown # <<>> /\ reloads[i].call < shown[Len(shown)]
       THEN UNCHANGED <<dataSource, dsHandler, initialDataSetForGraph,
                        initialViewStateForGraph, graphDirty, shown>>
       ELSE /\ dataSource' = reloads[i].source
            /\ dsHandler' = reloads[i].handler
            /\ initialDataSetForGraph' = <<reloads[i].dataSet>>
            /\ initialViewStateForGraph' = <<V>>
            /\ graphDirty' = TRUE
            /\ shown' = Append(shown, reloads[i].call)
    /\ nowLoading' = FALSE
    /\ reloads' = RemoveAt(reloads, i)
    /\ UNCHANGED <<messages, issued>>
    /\ UNCHANGED <<cyVars, syncVars, uiVars, storageVars, treeVars>>

\* loadViewStateFile resolves: the four setters, then finally
ViewStateResolves(i, V) ==
    /\ pc = "idle"
    /\ i \in 1..Len(reloads)
    /\ reloads[i].stage = "viewState"
    /\ dataSource' = reloads[i].source
    /\ dsHandler' = reloads[i].handler
    /\ initialDataSetForGraph' = <<reloads[i].dataSet>>
    /\ initialViewStateForGraph' = <<V>>
    /\ graphDirty' = TRUE
    /\ shown' = Append(shown, reloads[i].call)
    /\ nowLoading' = FALSE
    /\ reloads' = RemoveAt(reloads, i)
    /\ UNCHANGED <<messages, issued>>
    /\ UNCHANGED <<cyVars, syncVars, uiVars, storageVars, treeVars>>

\* GraphView, given a new initialDataSet / initialViewState, synchronizes
GraphViewEffect ==
    /\ pc = "idle"
    /\ graphDirty
    /\ uuidCount + Len(initialDataSetForGraph[1].edges) <= MaxUuid
    /\ graphDirty' = FALSE
    /\ pc' = "call"
    /\ UNCHANGED <<dataSource, dsHandler, initialDataSetForGraph,
                   initialViewStateForGraph, nowLoading, reloads, messages>>
    /\ UNCHANGED <<issued, shown>>
    /\ UNCHANGED cyVars
    /\ UNCHANGED <<dataSet, viewState, viewStateBeforeQuery, nodeIds, nodesWithDepth,
                   ix, depth, parentId, threw, uuidCount>>
    /\ UNCHANGED uiVars
    /\ UNCHANGED storageVars
    /\ UNCHANGED treeVars

NextApp ==
    \/ ContainerRef
    \/ LoadTargetFile
    \/ ReloadByCurrentData
    \/ \E source \in Sources : EditDataSource(source)
    \/ \E i \in 1..MaxInFlight, D \in AppDataSets : HandlerResolves(i, D)
    \/ \E i \in 1..MaxInFlight : AwaitRejects(i)
    \/ \E i \in 1..MaxInFlight : ReloadCatch(i)
    \/ \E i \in 1..MaxInFlight, V \in AppViewStates : ViewStateResolves(i, V)
    \/ GraphViewEffect
    \/ Remove(initialDataSetForGraph[1], initialViewStateForGraph[1])
    \/ SyncStep

SpecApp == Init /\ [][NextApp]_vars

\* C7: when handler.reload or loadViewStateFile has failed, the step that
\* handles the failure leaves dataSource, dsHandler and the data set and view
\* state handed to the graph unchanged, triggers no synchronization (the live
\* model keeps its contents), dispatches the error as a message and sets
\* nowLoading to false.
C7_FailedReloadLeavesGraphAlone ==
    [][\A i \in 1..Len(reloads) :
          (reloads[i].stage = "rejected" /\ reloads' = RemoveAt(reloads, i))
          => /\ UNCHANGED <<dataSource, dsHandler, initialDataSetForGraph,
                            initialViewStateForGraph, graphDirty>>
             /\ UNCHANGED cyVars
             /\ pc' = pc
             /\ messages' = messages + 1
             /\ nowLoading' = FALSE]_vars

\* a reload has failed and been handled after an earlier one was displayed,
\* while another reload is still in flight
C7_Witness ==
    /\ messages = 1
    /\ Len(cyElems) > 0
    /\ initialDataSetForGraph # <<>>
    /\ ~graphDirty
    /\ ~nowLoading
    /\ Len(reloads) = 1

(***************************************************************************)
(* useLocalStorage: a component renders, its effect runs, it saves.         *)
(***************************************************************************)
\* a component that calls useLocalStorage renders for the first time: data
\* is computed from the shared state, the effect is scheduled
Render(c) ==
    /\ consumer[c] = "unmounted"
    /\ consumer' = [consumer EXCEPT ![c] = "rendered"]
    /\ UNCHANGED <<cache, localStorage, lastSaved, storageReads, cacheWrites,
                   storageWrites>>
    /\ UNCHANGED <<cyVars, syncVars, uiVars, appVars, treeVars>>

\* the effect of useLocalStorage caches the default value when nothing usable
\* is stored
EffectCachesDefault(c) ==
    LET key == KeyOf(c)
        serialized == localStorage[key]
    IN  /\ consumer[c] = "rendered"
        /\ consumer' = [consumer EXCEPT ![c] = "mounted"]
        /\ storageReads' = [storageReads EXCEPT ![key] = @ + 1]
        /\ cache' = CacheReducer(cache, key,
                        IF serialized = <<>> \/ ~Deserialize(serialized[1]).ok
                        THEN DefaultValue
                        ELSE Deserialize(serialized[1]).obj)
        /\ cacheWrites' = [cacheWrites EXCEPT ![key] = @ + 1]
        /\ UNCHANGED <<localStorage, lastSaved, storageWrites>>
        /\ UNCHANGED <<cyVars, syncVars, uiVars, appVars, treeVars>>

\* the effect of useLocalStorage: getItem, deserialize, dispatch cache
Effect(c) ==
    LET key == KeyOf(c)
        serialized == localStorage[key]
    IN  /\ consumer[c] = "rendered"
        /\ consumer' = [consumer EXCEPT ![c] = "mounted"]
        /\ storageReads' = [storageReads EXCEPT ![key] = @ + 1]
        /\ IF serialized = <<>>
           THEN UNCHANGED <<cache, cacheWrites>>
           ELSE LET deserialized == Deserialize(serialized[1])
                IN  IF ~deserialized.ok
                    THEN UNCHANGED <<cache, cacheWrites>>
                    ELSE /\ cache' = CacheReducer(cache, key, deserialized.obj)
                         /\ cacheWrites' = [cacheWrites EXCEPT ![key] = @ + 1]
        /\ UNCHANGED <<localStorage, lastSaved, storageWrites>>
        /\ UNCHANGED <<cyVars, syncVars, uiVars, appVars, treeVars>>

\* save writes to localStorage and leaves the shared state alone
SaveStorageOnly(c, value) ==
    LET key == KeyOf(c)
    IN  /\ consumer[c] # "unmounted"
        /\ storageWrites[key] < MaxSaves
        /\ localStorage' = [localStorage EXCEPT ![key] = <<Serialize(value)>>]
        /\ lastSaved' = [lastSaved EXCEPT ![key] = <<value>>]
        /\ storageWrites' = [storageWrites EXCEPT ![key] = @ + 1]
        /\ UNCHANGED <<cache, consumer, storageReads, cacheWrites>>
        /\ UNCHANGED <<cyVars, syncVars, uiVars, appVars, treeVars>>

\* save: serialize, setItem, dispatch cache
Save(c, value) ==
    LET key == KeyOf(c)
    IN  /\ consumer[c] # "unmounted"
        /\ storageWrites[key] < MaxSaves
        /\ localStorage' = [localStorage EXCEPT ![key] = <<Serialize(value)>>]
        /\ cache' = CacheReducer(cache, key, value)
        /\ lastSaved' = [lastSaved EXCEPT ![key] = <<value>>]
        /\ storageWrites' = [storageWrites EXCEPT ![key] = @ + 1]
        /\ UNCHANGED <<consumer, storageReads, cacheWrites>>
        /\ UNCHANGED <<cyVars, syncVars, uiVars, appVars, treeVars>>

\* save dispatches cache before setItem, and setItem throws
SaveSetItemThrowsAfterCache(c, value) ==
    LET key == KeyOf(c)
    IN  /\ consumer[c] # "unmounted"
        /\ storageWrites[key] < MaxSaves
        /\ cache' = CacheReducer(cache, key, value)
        /\ lastSaved' = [lastSaved EXCEPT ![key] = <<value>>]
        /\ storageWrites' = [storageWrites EXCEPT ![key] = @ + 1]
        /\ UNCHANGED <<localStorage, consumer, storageReads, cacheWrites>>
        /\ UNCHANGED <<cyVars, syncVars, uiVars, appVars, treeVars>>

\* save when localStorage.setItem throws (the quota is exceeded): the
\* exception leaves save before dispatch
SaveSetItemThrows(c, value) ==
    LET key == KeyOf(c)
    IN  /\ consumer[c] # "unmounted"
        /\ storageWrites[key] < MaxSaves
        /\ storageWrites' = [storageWrites EXCEPT ![key] = @ + 1]
        /\ UNCHANGED <<cache, localStorage, lastSaved, consumer, storageReads,
                       cacheWrites>>
        /\ UNCHANGED <<cyVars, syncVars, uiVars, appVars, treeVars>>

\* localStorage outlives the application: it starts with whatever was stored
InitStored ==
    /\ InitSync
    /\ InitApp
    /\ InitStorage
    /\ localStorage \in [StorageKeys -> {<<>>} \cup {<<str>> : str \in StoredStrings}]
    /\ InitTree
    /\ treeItems = <<>>
    /\ treeMode = "parent"

NextStorage ==
    \/ \E c \in Consumers : Render(c)
    \/ \E c \in Consumers : Effect(c)
    \/ \E c \in Consumers, value \in SettingValues : Save(c, value)
    \/ \E c \in Consumers, value \in SettingValues : SaveSetItemThrows(c, value)

SpecStorage == InitStored /\ [][NextStorage]_vars

\* C8: once a value was saved under a key, every component that uses the key
\* reads that value as its data (from the shared state, not from
\* localStorage), until the next save under the key.
C8_ReadYourWrite ==
    \A c \in Consumers :
        (consumer[c] # "unmounted" /\ lastSaved[KeyOf(c)] # <<>>)
        => Data(c) = lastSaved[KeyOf(c)][1]

\* two components use k1, one of them has saved a value that is not the
\* default while something else was stored, and an effect has run since
C8_Witness ==
    /\ consumer[1] = "mounted"
    /\ consumer[3] = "mounted"
    /\ lastSaved["k1"] # <<>>
    /\ lastSaved["k1"] # <<DefaultValue>>
    /\ storageReads["k1"] = 2
    /\ cacheWrites["k1"] = 2

\* C9: the value resolved by the first read of a key (the stored value, or
\* the default when nothing usable is stored) is written into the shared
\* state exactly once, later reads do not load localStorage again, and the
\* entry changes afterwards only through save.
C9_SinglePopulation ==
    [][\A k \in StorageKeys :
          /\ storageReads'[k] >= 1 =>
                 /\ cache'[k] # <<>>
                 /\ storageReads'[k] = 1
                 /\ storageWrites'[k] = 0 => cacheWrites'[k] = 1
          /\ (cache[k] # <<>> /\ cache'[k] # cache[k]) =>
                 storageWrites'[k] = storageWrites[k] + 1]_vars

MaxItems == 3

TreeIdName == <<"1", "2", "3", "4">>
TreeIds == {TreeIdName[k] : k \in 1..MaxItems}

\* a parent id that no item has
UnresolvedId == "9"

\* items of parent-pointer mode, as getId and getParent see them
ParentItems == [id : TreeIds, parent : TreeIds \cup {UnresolvedId, NoId}]

NotTreeVars == <<cyVars, syncVars, uiVars, appVars, storageVars>>

\* the keys of new Map(entries): a key stays where it was first set
MapKeys(items) ==
    LET F[n \in 0..Len(items)] ==
            IF n = 0 THEN <<>>
            ELSE IF \E j \in 1..(n - 1) : items[j].id = items[n].id
                 THEN F[n - 1]
                 ELSE Append(F[n - 1], items[n].id)
    IN  F[Len(items)]

\* the value of a key of new Map(entries) is that of its last entry
LastItem(items, id) ==
    items[CHOOSE i \in 1..Len(items) :
              /\ items[i].id = id
              /\ \A j \in (i + 1)..Len(items) : items[j].id # id]

\* { item, children: [], depth: -1 }; parent is a position in treeNodes, or 0
\* for undefined
NewTreeNode(item) == [item |-> item, children |-> <<>>, parent |-> 0, depth |-> -1]

TreeNodesOf(items) ==
    [k \in 1..Len(MapKeys(items)) |-> NewTreeNode(LastItem(items, MapKeys(items)[k]))]

\* treeNodes.get(parentId): the position of the wrapper, 0 for undefined
MapGet(nodes, id) ==
    IF \E i \in 1..Len(nodes) : nodes[i].item.id = id
    THEN CHOOSE i \in 1..Len(nodes) : nodes[i].item.id = id
    ELSE 0

\* getAncestors counts past this only when the parent links are circular
AncestorCap == MaxItems

\* const treeNodes = new Map(items.map(...))
ToTree ==
    /\ treePc = "start"
    /\ treeNodes' = TreeNodesOf(treeItems)
    /\ treeIx' = 1
    /\ treePc' = IF treeMode = "parent" THEN "wire" ELSE "expand"
    /\ UNCHANGED <<treeItems, treeMode, treeChildNodes, treeCur, treeArr, treeRoots, treeFlat>>
    /\ UNCHANGED NotTreeVars

\* the first loop sets node.parent and pushes no child
WireParentWithoutChildren ==
    /\ treePc = "wire"
    /\ IF treeIx > Len(treeNodes)
       THEN /\ treePc' = "depth"
            /\ treeIx' = 1
            /\ UNCHANGED treeNodes
       ELSE /\ treeNodes' =
                  IF treeNodes[treeIx].item.parent = NoId THEN treeNodes
                  ELSE [treeNodes EXCEPT ![treeIx].parent =
                            MapGet(treeNodes, treeNodes[treeIx].item.parent)]
            /\ treeIx' = treeIx + 1
            /\ UNCHANGED treePc
    /\ UNCHANGED <<treeItems, treeMode, treeChildNodes, treeCur, treeArr, treeRoots, treeFlat>>
    /\ UNCHANGED NotTreeVars

\* one turn of: for (const node of treeNodes) { parentId = getParent(item);
\*   if (parentId == null) continue; node.parent = treeNodes.get(parentId);
\*   parent?.children.push(node) }
WireParent ==
    /\ treePc = "wire"
    /\ IF treeIx > Len(treeNodes)
       THEN /\ treePc' = "depth"
            /\ treeIx' = 1
            /\ UNCHANGED treeNodes
       ELSE LET parentKey == treeNodes[treeIx].item.parent
                parent == MapGet(treeNodes, parentKey)
                linked == [treeNodes EXCEPT ![treeIx].parent = parent]
            IN  /\ treeNodes' =
                      IF parentKey = NoId THEN treeNodes
                      ELSE IF parent = 0 THEN linked
                      ELSE [linked EXCEPT ![parent].children = Append(@, treeIx)]
                /\ treeIx' = treeIx + 1
                /\ UNCHANGED treePc
    /\ UNCHANGED <<treeItems, treeMode, treeChildNodes, treeCur, treeArr, treeRoots, treeFlat>>
    /\ UNCHANGED NotTreeVars

\* getDepth(node) calls getAncestors(node): const arr = []; let parent = node.parent
GetDepth ==
    /\ treePc = "depth"
    /\ IF treeIx > Len(treeNodes)
       THEN /\ treePc' = "filter"
            /\ UNCHANGED <<treeCur, treeArr>>
       ELSE /\ treePc' = "ancestors"
            /\ treeCur' = treeNodes[treeIx].parent
            /\ treeArr' = 0
    /\ UNCHANGED <<treeItems, treeMode, treeNodes, treeChildNodes, treeIx, treeRoots, treeFlat>>
    /\ UNCHANGED NotTreeVars

\* one turn of: while (parent) { arr.push(parent); parent = parent.parent }
GetAncestors ==
    /\ treePc = "ancestors"
    /\ treeCur # 0
    /\ treeArr' = IF treeArr < AncestorCap THEN treeArr + 1 ELSE treeArr
    /\ treeCur' = treeNodes[treeCur].parent
    /\ UNCHANGED <<treeItems, treeMode, treeNodes, treeChildNodes, treePc, treeIx,
                   treeRoots, treeFlat>>
    /\ UNCHANGED NotTreeVars

\* the walk has ended: node.depth = getAncestors(node).length
SetDepth ==
    /\ treePc = "ancestors"
    /\ treeCur = 0
    /\ treeNodes' = [treeNodes EXCEPT ![treeIx].depth = treeArr]
    /\ treeIx' = treeIx + 1
    /\ treePc' = "depth"
    /\ UNCHANGED <<treeItems, treeMode, treeChildNodes, treeCur, treeArr, treeRoots, treeFlat>>
    /\ UNCHANGED NotTreeVars

\* return Array.from(treeNodes.values()).filter(node => node.depth === 0)
ReturnRoots ==
    /\ treePc = "filter"
    /\ treeRoots' = SelectSeq(treeNodes, LAMBDA node : node.depth = 0)
    /\ treePc' = "done"
    /\ UNCHANGED <<treeItems, treeMode, treeNodes, treeChildNodes, treeIx, treeCur,
                   treeArr, treeFlat>>
    /\ UNCHANGED NotTreeVars

\* items of children-accessor mode, as getId and getChildren see them: the
\* children are items themselves, nested up to two levels
LeafItems == [id : TreeIds, children : {<<>>}]
InnerItems == [id : TreeIds, children : SeqsUpTo(LeafItems, 2)]
ChildrenItems == InnerItems \cup [id : TreeIds, children : SeqsUpTo(InnerItems, 1)]

\* the wrappers createChildrenRecursively(parent) creates below a wrapper. A
\* wrapper of this mode is named by its path: the position of its root in
\* treeNodes, then the position of each child in its parent's children.
RECURSIVE CreateChildrenRecursively(_, _, _)
CreateChildrenRecursively(path, item, parentDepth) ==
    UNION {LET childPath == Append(path, c)
               childItem == item.children[c]
           IN  {[path |-> childPath, item |-> childItem, depth |-> parentDepth + 1,
                 parent |-> path,
                 children |-> [k \in 1..Len(childItem.children) |-> Append(childPath, k)]]}
               \cup CreateChildrenRecursively(childPath, childItem, parentDepth + 1)
           : c \in 1..Len(item.children)}

\* one turn of: for (const node of treeNodes) { node.depth = 0;
\*   createChildrenRecursively(node) }
ExpandChildren ==
    /\ treePc = "expand"
    /\ IF treeIx > Len(treeNodes)
       THEN /\ treePc' = "filter"
            /\ UNCHANGED <<treeNodes, treeChildNodes, treeIx>>
       ELSE LET item == treeNodes[treeIx].item
            IN  /\ treeNodes' =
                      [treeNodes EXCEPT ![treeIx].depth = 0,
                                        ![treeIx].children =
                                            [k \in 1..Len(item.children) |-> <<treeIx, k>>]]
                /\ treeChildNodes' =
                      treeChildNodes \cup CreateChildrenRecursively(<<treeIx>>, item, 0)
                /\ treeIx' = treeIx + 1
                /\ UNCHANGED treePc
    /\ UNCHANGED <<treeItems, treeMode, treeCur, treeArr, treeRoots, treeFlat>>
    /\ UNCHANGED NotTreeVars

\* a wrapper is named by its position in treeNodes in parent-pointer mode and
\* by its path in children-accessor mode; a wrapper of the Map itself is
WrapperRef(i) == IF treeMode = "parent" THEN i ELSE <<i>>

\* n.children
Children(n) ==
    IF treeMode = "parent" THEN treeNodes[n].children
    ELSE IF Len(n) = 1 THEN treeNodes[n[1]].children
    ELSE (CHOOSE node \in treeChildNodes : node.path = n).children

\* for (const child of n.children) { arr.push(child); pushRecursively(child) }
RECURSIVE PushRecursively(_)
PushRecursively(n) ==
    LET F[k \in 0..Len(Children(n))] ==
            IF k = 0 THEN <<>>
            ELSE F[k - 1] \o <<Children(n)[k]>> \o PushRecursively(Children(n)[k])
    IN  F[Len(Children(n))]

\* const arr = []; pushRecursively(node); return arr
GetDescendants(node) == PushRecursively(node)

\* the descendants without the node itself
GetDescendantsWithoutSelf(node) == GetDescendants(node)

\* return [node, ...getDescendants(node)]
GetDescendantsAndSelf(node) == <<node>> \o GetDescendants(node)

\* flatten(toTree(items, fn)): nodes.flatMap(node => getDescendantsAndSelf(node))
Flatten ==
    /\ treePc = "done"
    /\ treeFlat' =
          LET F[k \in 0..Len(treeRoots)] ==
                  IF k = 0 THEN <<>>
                  ELSE F[k - 1] \o GetDescendantsAndSelf(
                           WrapperRef(MapGet(treeNodes, treeRoots[k].item.id)))
          IN  F[Len(treeRoots)]
    /\ treePc' = "flattened"
    /\ UNCHANGED <<treeItems, treeMode, treeNodes, treeChildNodes, treeIx, treeCur,
                   treeArr, treeRoots>>
    /\ UNCHANGED NotTreeVars

\* toTree is called with any items, in either mode
InitToTree ==
    /\ InitSync
    /\ InitApp
    /\ InitStorage
    /\ localStorage = [k \in StorageKeys |-> <<>>]
    /\ InitTree
    /\ \/ /\ treeMode = "parent"
          /\ treeItems \in SeqsUpTo(ParentItems, MaxItems)
       \/ /\ treeMode = "children"
          /\ treeItems \in SeqsUpTo(ChildrenItems, MaxItems - 1)

NextTree ==
    \/ ToTree
    \/ WireParent
    \/ ExpandChildren
    \/ GetDepth
    \/ GetAncestors
    \/ SetDepth
    \/ ReturnRoots
    \/ Flatten

\* toTree is synchronous code: once called it runs on
SpecTree == InitToTree /\ [][NextTree]_vars /\ WF_vars(NextTree)

TreeItemIds == {treeItems[i].id : i \in 1..Len(treeItems)}

UniqueIds == \A i, j \in 1..Len(treeItems) : treeItems[i].id = treeItems[j].id => i = j

\* the parent id of the item resolves to an item of the input
Resolves(item) == item.parent # NoId /\ item.parent \in TreeItemIds

\* the id reached from id by n parent references, NoId once the chain has left
\* the items
RECURSIVE Up(_, _)
Up(id, n) ==
    IF n = 0 THEN id
    ELSE LET q == Up(id, n - 1)
         IN  IF q \in TreeItemIds THEN LastItem(treeItems, q).parent ELSE NoId

AcyclicParents == \A id \in TreeItemIds : Up(id, Len(treeItems)) \notin TreeItemIds

\* C11: in parent-pointer mode, for items with unique ids and acyclic parent
\* ids, the roots returned are exactly the items whose parent id is missing or
\* does not resolve, every other item is a child of the node of its parent id
\* (once), and every node's depth is 0 for a root and parent depth + 1
\* otherwise.
C11_ParentModeForest ==
    (treePc = "done" /\ treeMode = "parent" /\ UniqueIds /\ AcyclicParents) =>
        /\ Len(treeNodes) = Len(treeItems)
        /\ {treeRoots[k].item : k \in 1..Len(treeRoots)}
              = {treeItems[i] : i \in {j \in 1..Len(treeItems) : ~Resolves(treeItems[j])}}
        /\ \A k, l \in 1..Len(treeRoots) : treeRoots[k].item = treeRoots[l].item => k = l
        /\ \A i \in 1..Len(treeNodes) :
              LET node == treeNodes[i]
              IN  IF Resolves(node.item)
                  THEN /\ node.parent = MapGet(treeNodes, node.item.parent)
                       /\ Cardinality({c \in 1..Len(treeNodes[node.parent].children) :
                                          treeNodes[node.parent].children[c] = i}) = 1
                       /\ node.depth = treeNodes[node.parent].depth + 1
                  ELSE /\ node.parent = 0
                       /\ node.depth = 0
        /\ \A i \in 1..Len(treeNodes) :
              \A c \in 1..Len(treeNodes[i].children) :
                  treeNodes[treeNodes[i].children[c]].parent = i

\* three items: a root, its child, and a grandchild listed before both; and a
\* second case, an item whose parent id does not resolve
C11_Witness ==
    /\ treePc = "done"
    /\ treeMode = "parent"
    /\ UniqueIds
    /\ AcyclicParents
    /\ Len(treeRoots) = 1
    /\ \E i \in 1..Len(treeNodes) : treeNodes[i].depth = 2 /\ i < treeNodes[i].parent
    /\ treeRoots[1].item.parent = UnresolvedId

\* the depth of the wrapper at a path of children-accessor mode
DepthAt(path) ==
    IF Len(path) = 1 THEN treeNodes[path[1]].depth
    ELSE (CHOOSE node \in treeChildNodes : node.path = path).depth

\* some other item of the input lists the item as a child
ListedAsChild(item) ==
    \E i \in 1..Len(treeItems) :
        /\ treeItems[i] # item
        /\ \E c \in 1..Len(treeItems[i].children) : treeItems[i].children[c] = item

\* C12: in children-accessor mode the roots returned are exactly the input
\* items that no other input item lists as a child, and every node reached by
\* the expansion has the depth of its parent + 1.
C12_ChildrenModeForest ==
    (treePc = "done" /\ treeMode = "children" /\ UniqueIds) =>
        /\ {treeRoots[k].item : k \in 1..Len(treeRoots)}
              = {treeItems[i] :
                    i \in {j \in 1..Len(treeItems) : ~ListedAsChild(treeItems[j])}}
        /\ \A node \in treeChildNodes : node.depth = DepthAt(node.parent) + 1

\* C20: toTree in parent-pointer mode terminates for every finite item
\* sequence, also when the parent ids form a cycle or an item names itself as
\* parent.
C20_ParentModeTerminates == (treeMode = "parent") => <>(treePc = "done")

\* the item with id a is reached from the item with id d by one or more
\* parent references
IsAncestorId(a, d) == \E n \in 1..Len(treeItems) : Up(d, n) = a

\* the id of the item whose wrapper stands at place k of the flattened forest
FlatId(k) == treeNodes[treeFlat[k]].item.id

\* C21: for items with unique ids and acyclic parent ids, flatten(toTree(items))
\* in parent-pointer mode holds the wrapper of every input item exactly once,
\* every node directly followed by all its descendants and by nothing else
\* before them (pre-order, a node before its descendants), and the trees stand
\* in the order of the roots toTree returned.
C21_FlattenPreOrder ==
    (treePc = "flattened" /\ treeMode = "parent" /\ UniqueIds /\ AcyclicParents) =>
        /\ Len(treeFlat) = Len(treeItems)
        /\ \A i \in 1..Len(treeItems) :
              Cardinality({k \in 1..Len(treeFlat) :
                              treeNodes[treeFlat[k]].item = treeItems[i]}) = 1
        /\ \A k \in 1..Len(treeFlat) :
              LET desc == {l \in 1..Len(treeFlat) : IsAncestorId(FlatId(k), FlatId(l))}
              IN  desc = (k + 1)..(k + Cardinality(desc))
        /\ SelectSeq(treeFlat, LAMBDA n : treeNodes[n].depth = 0)
              = [k \in 1..Len(treeRoots) |-> MapGet(treeNodes, treeRoots[k].item.id)]

\* two trees, the child of the second root listed before both roots: the
\* flattened order is not the order of the input
C21_Witness ==
    /\ treePc = "flattened"
    /\ treeMode = "parent"
    /\ UniqueIds
    /\ AcyclicParents
    /\ Len(treeRoots) = 2
    /\ treeFlat = <<2, 3, 1>>

C14_PlaceholdersOnlyForUnknownReferences ==
    (pc \in {"nodes", "edges", "apply1", "apply2"} \/ Completed) =>
        \A k \in 1..Len(cyElems) :
            cyElems[k].group = "nodes" =>
                /\ \A j \in 1..Len(cyElems) : cyElems[j].id = cyElems[k].id => j = k
                /\ IF cyElems[k].id \in NodeKeys(dataSet)
                   THEN cyElems[k].label = NodeOf(dataSet, cyElems[k].id).label
                   ELSE /\ cyElems[k].id \in Referenced(dataSet)
                        /\ cyElems[k].id \in nodeIds
                        /\ cyElems[k].label = cyElems[k].id
                        /\ cyElems[k].parent = NoId

\* an identifier that is no key of D.nodes is referred to twice, as a parent
\* and by an edge, and has its placeholder
C14_Witness ==
    /\ Completed
    /\ DanglingId \in ParentRefs(dataSet)
    /\ DanglingId \in EdgeRefs(dataSet)
    /\ DanglingId \in CyNodeIds(cyElems)
    /\ Len(cyElems) = Len(dataSet.nodes) + Len(dataSet.edges) + 1

\* the number of parent references that can be followed through D.nodes from
\* the node id
RECURSIVE ParentsFollowed(_, _, _)
ParentsFollowed(D, id, fuel) ==
    LET p == NodeOf(D, id).parent
    IN  IF fuel > 0 /\ p # NoId /\ HasNode(D, p)
        THEN 1 + ParentsFollowed(D, p, fuel - 1)
        ELSE 0

\* the walk from the node id reaches a parent identifier absent from D.nodes
RECURSIVE ChainIsBroken(_, _, _)
ChainIsBroken(D, id, fuel) ==
    LET p == NodeOf(D, id).parent
    IN  IF p = NoId THEN FALSE
        ELSE IF ~HasNode(D, p) THEN TRUE
        ELSE fuel > 0 /\ ChainIsBroken(D, p, fuel - 1)

\* C15 as claimed: the depth computed for a node is the number of parent
\* references followed through D.nodes, but 0 when the walk reaches a parent
\* identifier that is absent from D.nodes.
C15_BrokenChainIsDepthZero ==
    \A k \in 1..Len(nodesWithDepth) :
        nodesWithDepth[k].depth =
            IF ChainIsBroken(dataSet, nodesWithDepth[k].id, Len(dataSet.nodes))
            THEN 0
            ELSE ParentsFollowed(dataSet, nodesWithDepth[k].id, Len(dataSet.nodes))

\* C15 amended: the depth computed for a node is the number of parent
\* references followed through D.nodes; the walk stops at a parent identifier
\* that is absent from D.nodes and keeps the count reached there.
C15_DepthCountsResolvableAncestors ==
    \A k \in 1..Len(nodesWithDepth) :
        nodesWithDepth[k].depth =
            ParentsFollowed(dataSet, nodesWithDepth[k].id, Len(dataSet.nodes))

\* a node whose parent is in D.nodes and whose grandparent is absent has got
\* depth 1
C15_Witness ==
    /\ pc = "sort"
    /\ \E k \in 1..Len(nodesWithDepth) :
          /\ ChainIsBroken(dataSet, nodesWithDepth[k].id, Len(dataSet.nodes))
          /\ nodesWithDepth[k].depth = 1

\* applyToCytoscape has no await: once called, it runs statement by statement
\* and termination depends on the nodes of the data set only
SyncDataSets == {D \in AllDataSets : D.edges = <<>>}

NextSync ==
    \/ ContainerRef
    \/ CallApplyToCytoscape
    \/ \E D \in SyncDataSets : Remove(D, EmptyViewState)
    \/ SyncStep

SpecSync ==
    /\ Init
    /\ [][NextSync]_vars
    /\ WF_vars(SyncStep)
    /\ WF_vars(\E D \in SyncDataSets : Remove(D, EmptyViewState))

\* no parent chain of D returns to a node it has passed
AcyclicDataSet(D) ==
    \A k \in 1..Len(D.nodes) :
        ParentsFollowed(D, D.nodes[k].id, Len(D.nodes)) < Len(D.nodes)

\* C16: for a data set with acyclic parent references applyToCytoscape gets
\* to endBatch and returns; for a data set with a self-referential or
\* circular parent chain it stays in the depth walk for ever, with the batch
\* open, the old elements removed and no element inserted.
C16_TerminatesUnlessCircular ==
    /\ (pc = "depth" /\ AcyclicDataSet(dataSet)) ~> (pc = "idle" /\ batch = 0)
    /\ [][(pc = "depth" /\ ~AcyclicDataSet(dataSet))
          => (pc' = "depth" /\ batch' = 1 /\ cyElems' = <<>>)]_vars

\* the depth walk is going round a circular parent chain after a model with
\* elements was emptied
C16_Witness ==
    /\ pc = "depth"
    /\ ~AcyclicDataSet(dataSet)
    /\ depth = DepthCap
    /\ DOMAIN viewStateBeforeQuery.positions # {}

(***************************************************************************)
(* Overlapping reloads, and the order of save.                              *)
(***************************************************************************)
\* C17: overlapping reload calls are neither cancelled nor coalesced: a call
\* leaves the calls in flight only by its own completion, and every response
\* that completes is handed to the graph when it completes, so the data set
\* handed over last is that of the response that completed last, also when
\* its call was made before the call whose response is displayed.
C17_ResponsesDisplayedInCompletionOrder ==
    [][/\ \A i \in 1..Len(reloads) :
             (reloads[i].stage = "viewState" /\ reloads' = RemoveAt(reloads, i))
             => /\ initialDataSetForGraph' = <<reloads[i].dataSet>>
                /\ dataSource' = reloads[i].source
                /\ dsHandler' = reloads[i].handler
                /\ graphDirty'
                /\ shown' = Append(shown, reloads[i].call)
       /\ Len(reloads') < Len(reloads)
             => \E i \in 1..Len(reloads) :
                    /\ reloads[i].stage \in {"viewState", "rejected"}
                    /\ reloads' = RemoveAt(reloads, i)
       /\ (initialDataSetForGraph' # initialDataSetForGraph
           \/ initialViewStateForGraph' # initialViewStateForGraph)
             => \E i \in 1..Len(reloads) :
                    /\ reloads[i].stage = "viewState"
                    /\ reloads' = RemoveAt(reloads, i)]_vars

\* the response of the first call was handed over after that of the second
\* call had been, and has been synchronized into the live model
C17_Witness ==
    /\ shown = <<2, 1>>
    /\ ~graphDirty
    /\ pc = "idle"
    /\ Len(cyElems) > 0
    /\ cyElems[1].id = initialDataSetForGraph[1].nodes[1].id

\* C19: nowLoading is true in every state in which a reload call has started
\* and has not finished, also when several calls overlap.
C19_LoadingWhileAnyReloadInFlight == Len(reloads) > 0 => nowLoading

\* C18: save stores serialize(value) before it updates the shared state: when
\* setItem throws the shared state is not changed, so whenever the shared
\* state holds for a key the value that save put there, localStorage holds
\* serialize of that value; and a save under one key changes neither the
\* shared state nor localStorage of any other key.
C18_StoredBeforeCached ==
    [][\A k \in StorageKeys :
          /\ (lastSaved'[k] # <<>> /\ cache'[k] = lastSaved'[k])
                => localStorage'[k] = <<Serialize(lastSaved'[k][1])>>
          /\ storageWrites'[k] # storageWrites[k]
                => \A j \in StorageKeys \ {k} :
                       /\ cache'[j] = cache[j]
                       /\ localStorage'[j] = localStorage[j]]_vars

\* both keys are cached and stored, a save under k1 has gone through and a
\* later one has failed in setItem
C18_Witness ==
    /\ lastSaved["k1"] # <<>>
    /\ cache["k1"] = lastSaved["k1"]
    /\ cache["k2"] # <<>>
    /\ cache["k2"] # cache["k1"]
    /\ localStorage["k2"] # <<>>
    /\ storageWrites["k1"] = 2
    /\ cacheWrites["k1"] = 0

====
